---- MODULE Spec2Model ----
(***************************************************************************)
(* Model of the multicast core of ZeroTierOne (fork mwarning):             *)
(*   node/HashArray.hpp   - HashArray<T>, the open-addressing pointer table *)
(*   node/Multicaster.hpp - Multicaster::MGroups, the group store           *)
(*   node/Multicaster.cpp - Multicaster, the multicast dispatcher           *)
(*   node/Switch.hpp      - Switch: WHOIS requests, TX queue, unite         *)
(*                                                                         *)
(* A pointer is a natural number: 0 is free_ptr, 1 is dummy_ptr (the        *)
(* tombstone), anything above is the address of a MulticastGroupStatus in   *)
(* heap.  _data[p + 1] is the C++ _data[p]; the end marker _data[_capacity] *)
(* is not stored, the index _capacity stands for end().                     *)
(*                                                                         *)
(* Specifications:                                                         *)
(*   SpecTable   - the table alone: set and erase of three keys            *)
(*   SpecFill    - the table alone: filled, emptied and compacted          *)
(*   Spec        - the dispatcher on two networks, one peer, direct sends  *)
(*   SpecSend    - the dispatcher with one group, two peers, queued sends  *)
(*   SpecCeiling - groups created one after another, none swept            *)
(*   SpecFanOut  - one group, sends with long and repeating alwaysSendTo   *)
(*   SpecRefresh - a peer announced again while the store is above ceiling *)
(*   SpecGather  - two groups, two peers, gather by a member               *)
(*   SpecClean   - members and transmissions of every age, swept by clean  *)
(*   SpecSweep   - short-lived groups that leave a tombstone in every slot *)
(*   SpecNotify  - a group that learns peers while transmissions pend      *)
(*   SpecChain   - the table alone: eight keys, one for each slot          *)
(*   SpecAdi     - two groups that differ in the ADI only                  *)
(*   SpecRate    - queued sends and sweeps over one gather delay           *)
(*   SpecLock    - two threads and the lock of the group store             *)
(*   SpecWhois   - the switch: packets queued for unknown addresses        *)
(*   SpecUnite   - the switch: unite calls for three peers                 *)
(*                                                                         *)
(* A failed assert() ends the process (halted = "assert"): the sources     *)
(* include <assert.h> and define no NDEBUG.                                *)
(***************************************************************************)
EXTENDS Integers, Sequences, FiniteSets, TLC

VARIABLES
    _data,      \* HashArray::_data, the slots 0 .. _capacity-1
    _size,      \* HashArray::_size
    _capacity,  \* HashArray::_capacity
    heap,       \* the MulticastGroupStatus objects, by pointer
    last_mac,   \* MGroups::last_mac
    halted,     \* "no", "assert" (an assert() aborted the process) or "loop" (a probe loop never ends)
    inserted,   \* history: the keys for which set returned true and erase(key) has not returned true since
    clock,      \* the caller's clock: the last value of now it passed
    op,         \* history: the last call, its arguments and what it returned
    _outstandingWhoisRequests,  \* Switch::_outstandingWhoisRequests, by address
    _txQueue,           \* Switch::_txQueue: the pairs (address, entry) in the order of the multimap
    _lastUniteAttempt,  \* Switch::_lastUniteAttempt, by pair of addresses
    topology,           \* the addresses whose identity is known (RR->topology)
    composed,           \* history: the number of packets handed to Switch::send so far
    gathers,            \* history: by group, the time of the last gather request send sent upstream
    _groups_m,          \* Multicaster::_groups_m: the thread that holds it, 0 if none
    threads             \* by thread: the public operation it is in, and where in it

vars == <<_data, _size, _capacity, heap, last_mac, halted, inserted, clock, op,
          _outstandingWhoisRequests, _txQueue, _lastUniteAttempt, topology, composed,
          gathers, _groups_m, threads>>
\* the lock of the group store and the threads that call the dispatcher
lockVars == <<_groups_m, threads>>
\* the state of the Switch
swVars == <<_outstandingWhoisRequests, _txQueue, _lastUniteAttempt, topology, composed>>

-----------------------------------------------------------------------------
(* Bounds of the model *)

NumFill == 16       \* SpecFill stacks up to NumFill entries
MacLimit == 64      \* MAC values (MAC::toInt) are below MacLimit
MaxDup == 2         \* SpecTable: at most MaxDup objects of one key are allocated at a time
GroupCeiling == 2   \* stands for the 1600 of Multicaster.cpp: the number of groups above which add refuses
MaxTx == 1          \* SpecSend: a send that queues is called while fewer than MaxTx are pending
MaxTicks == 1       \* SpecSend: the caller's clock advances MaxTicks times

-----------------------------------------------------------------------------
(* HashArray.hpp *)

free_ptr == 0
dummy_ptr == 1
min_capacity == 8

\* a & b on naturals
RECURSIVE BitAnd(_, _)
BitAnd(a, b) ==
    IF a = 0 \/ b = 0 THEN 0
    ELSE (IF a % 2 = 1 /\ b % 2 = 1 THEN 1 ELSE 0) + 2 * BitAnd(a \div 2, b \div 2)

\* MGroups::Key
Key(mac, nwid) == [_mac |-> mac, _nwid |-> nwid]
KeyHash(key) == key._mac
KeyEq(key, mgs) == key._mac = mgs.mac /\ key._nwid = mgs.nwid

\* MulticastGroupStatus
MulticastGroupStatus(nwid, mac) ==
    [nwid |-> nwid, mac |-> mac, lastExplicitGather |-> 0, txQueue |-> <<>>, members |-> <<>>]
MgsHash(mgs) == mgs.mac

\* operator new: some address not in use.  Which one is never observed (pointers are
\* compared with free_ptr, dummy_ptr and the end marker only), so the model hands out
\* the first unused of the addresses it reserves for the objects of one key.
Nwids == {1, 2}
AddrOf(nwid, mac, k) == 2 + (nwid - 1) + Cardinality(Nwids) * (mac + MacLimit * k)
NewPtr(hp, nwid, mac) ==
    LET k == CHOOSE i \in 0..Cardinality(DOMAIN hp) :
                 /\ AddrOf(nwid, mac, i) \notin DOMAIN hp
                 /\ \A j \in 0..(i - 1) : AddrOf(nwid, mac, j) \in DOMAIN hp
    IN AddrOf(nwid, mac, k)
HeapPut(hp, p, obj) == [q \in (DOMAIN hp) \cup {p} |-> IF q = p THEN obj ELSE hp[q]]
HeapDel(hp, p) == [q \in (DOMAIN hp) \ {p} |-> hp[q]]

Hang == -1

\* the probe loop of find: the slot of the entry, capacity for end(), Hang when
\* the loop comes back to where it started (the table does not change, so it never ends)
RECURSIVE findFrom(_, _, _, _, _, _)
findFrom(data, capacity, hp, key, p, n) ==
    IF n = capacity THEN Hang
    ELSE IF data[p + 1] > dummy_ptr /\ KeyEq(key, hp[data[p + 1]]) THEN p
    ELSE IF data[p + 1] = free_ptr THEN capacity
    ELSE findFrom(data, capacity, hp, key, BitAnd(p + 1, capacity - 1), n + 1)

find(data, capacity, hp, key) ==
    findFrom(data, capacity, hp, key, BitAnd(KeyHash(key), capacity - 1), 0)

is_power_of_2(n) == n # 0 /\ BitAnd(n, n - 1) = 0

\* the asserts at the head of resize
resizeAsserts(new_capacity) == new_capacity >= min_capacity /\ is_power_of_2(new_capacity)

\* mutant of resizeProbe: no probing, the entry overwrites whatever its slot holds
resizeProbeOverwrite(new_data, new_mask, p) == p

\* the inner loop of resize: the first free slot of new_data from p on
RECURSIVE resizeProbe(_, _, _)
resizeProbe(new_data, new_mask, p) ==
    IF new_data[p + 1] = free_ptr THEN p
    ELSE resizeProbe(new_data, new_mask, BitAnd(p + 1, new_mask))

\* the outer loop of resize, from slot k of the old array on
RECURSIVE resizeCopy(_, _, _, _, _, _)
resizeCopy(data, capacity, hp, new_data, new_mask, k) ==
    IF k >= capacity THEN new_data
    ELSE IF data[k + 1] <= dummy_ptr
         THEN resizeCopy(data, capacity, hp, new_data, new_mask, k + 1)
         ELSE LET hash == MgsHash(hp[data[k + 1]])
                  p == resizeProbe(new_data, new_mask, BitAnd(hash, new_mask))
              IN resizeCopy(data, capacity, hp, [new_data EXCEPT ![p + 1] = data[k + 1]],
                            new_mask, k + 1)

\* a table value: what the operations of the table hand back.  abort: an assert failed
Table(data, size, capacity) ==
    [data |-> data, size |-> size, capacity |-> capacity, abort |-> FALSE]

\* mutant of resize: _capacity takes the allocated length, end marker included
resizeAllocLength(t, hp, new_capacity) ==
    IF ~resizeAsserts(new_capacity) THEN [t EXCEPT !.abort = TRUE]
    ELSE Table(resizeCopy(t.data, t.capacity, hp, [i \in 1..(new_capacity + 1) |-> free_ptr],
                          new_capacity - 1, 0),
               t.size, new_capacity + 1)

\* resize (new[] throws rather than returning NULL, so the early return is dead)
resize(t, hp, new_capacity) ==
    IF ~resizeAsserts(new_capacity) THEN [t EXCEPT !.abort = TRUE]
    ELSE Table(resizeCopy(t.data, t.capacity, hp, [i \in 1..new_capacity |-> free_ptr],
                          new_capacity - 1, 0),
               t.size, new_capacity)

\* HashArray(): _data(NULL), _size(0), _capacity(0), then resize(min_capacity)
HashArray == resize(Table(<<>>, 0, 0), <<>>, min_capacity)

\* the test of grow
growNeeded(size, capacity) ==
    size > ((capacity \div 2) + (capacity \div 4) + (capacity \div 8))

\* the test of shrink
shrinkNeeded(size, capacity) ==
    capacity > min_capacity /\ size < (capacity \div 2)

\* grow, called by set after the insert
grow(t, hp) ==
    IF growNeeded(t.size, t.capacity) THEN resize(t, hp, t.capacity * 2) ELSE t

\* shrink
shrink(t, hp) ==
    IF shrinkNeeded(t.size, t.capacity) THEN resize(t, hp, t.capacity \div 2) ELSE t

\* compact
compact(t, hp) == shrink(t, hp)

\* the probe loop of set: the slot the value is stored in, capacity when an equal
\* entry is met first (set returns false), Hang when the loop never ends
RECURSIVE setFrom(_, _, _, _, _, _)
setFrom(data, capacity, hp, key, p, n) ==
    IF n = capacity THEN Hang
    ELSE IF data[p + 1] > dummy_ptr /\ KeyEq(key, hp[data[p + 1]]) THEN capacity
    ELSE IF data[p + 1] <= dummy_ptr THEN p
    ELSE setFrom(data, capacity, hp, key, BitAnd(p + 1, capacity - 1), n + 1)

setSlot(t, hp, key) ==
    setFrom(t.data, t.capacity, hp, key, BitAnd(KeyHash(key), t.capacity - 1), 0)

\* set, once the loop has found the slot p: store, count, grow (hp holds *value)
setAt(t, hp, p, value) ==
    grow(Table([t.data EXCEPT ![p + 1] = value], t.size + 1, t.capacity), hp)

\* erase(const iterator &), the iterator pointing at slot p
eraseAt(t, p) ==
    IF t.data[p + 1] > dummy_ptr
    THEN Table([t.data EXCEPT ![p + 1] = dummy_ptr], t.size - 1, t.capacity)
    ELSE t

\* the assert of erase(const K &)
eraseAsserts(key) == KeyHash(key) > dummy_ptr

ThisTable == Table(_data, _size, _capacity)

\* the process stops: an assert aborted it, or it is in a loop that never ends
Halt(why, call) ==
    /\ halted' = why
    /\ op' = call
    /\ UNCHANGED <<_data, _size, _capacity, heap, last_mac, inserted, clock>>

\* Switch::Switch: the node knows its upstream peers, nothing is queued
Upstream == {2, 3}
SwitchInit ==
    /\ _outstandingWhoisRequests = <<>>
    /\ _txQueue = <<>>
    /\ _lastUniteAttempt = <<>>
    /\ topology = Upstream
    /\ composed = 0

\* the threads that call the dispatcher
Threads == {1, 2}
LockInit ==
    /\ gathers = <<>>
    /\ _groups_m = 0
    /\ threads = [t \in Threads |-> [call |-> "none", at |-> "idle"]]

\* the table after a call
SetTable(t) ==
    /\ _data' = t.data
    /\ _size' = t.size
    /\ _capacity' = t.capacity

-----------------------------------------------------------------------------
(* The table on its own *)

Call(name, key, ret) == [call |-> name, key |-> key, ret |-> ret]
NoKey == Key(0, 0)

TInit ==
    /\ _data = HashArray.data
    /\ _size = HashArray.size
    /\ _capacity = HashArray.capacity
    /\ heap = <<>>
    /\ last_mac = 0
    /\ halted = "no"
    /\ inserted = {}
    /\ clock = 0
    /\ op = Call("new", NoKey, TRUE)
    /\ SwitchInit
    /\ LockInit

\* set(key, new MulticastGroupStatus(key._nwid, key._mac))
TSet(key) ==
    /\ halted = "no"
    /\ UNCHANGED <<swVars, lockVars, gathers>>
    /\ LET value == NewPtr(heap, key._nwid, key._mac)
           hp == HeapPut(heap, value, MulticastGroupStatus(key._nwid, key._mac))
           p == setSlot(ThisTable, heap, key)
           t == setAt(ThisTable, hp, p, value)
       IN IF p = Hang THEN Halt("loop", Call("set", key, FALSE))
          ELSE IF p = _capacity
          THEN /\ op' = Call("set", key, FALSE)     \* the caller drops the value
               /\ UNCHANGED <<_data, _size, _capacity, heap, last_mac, halted, inserted, clock>>
          ELSE IF t.abort THEN Halt("assert", Call("set", key, FALSE))
          ELSE /\ SetTable(t)
               /\ heap' = hp
               /\ inserted' = inserted \cup {key}
               /\ op' = Call("set", key, TRUE)
               /\ UNCHANGED <<last_mac, halted, clock>>

\* erase(key); the caller deletes the object it took out
TErase(key) ==
    /\ halted = "no"
    /\ UNCHANGED <<swVars, lockVars, gathers>>
    /\ LET p == find(_data, _capacity, heap, key)
       IN IF ~eraseAsserts(key) THEN Halt("assert", Call("erase", key, FALSE))
          ELSE IF p = Hang THEN Halt("loop", Call("erase", key, FALSE))
          ELSE IF p = _capacity
          THEN /\ op' = Call("erase", key, FALSE)
               /\ UNCHANGED <<_data, _size, _capacity, heap, last_mac, halted, inserted, clock>>
          ELSE /\ SetTable(eraseAt(ThisTable, p))
               /\ heap' = HeapDel(heap, _data[p + 1])
               /\ inserted' = inserted \ {key}
               /\ op' = Call("erase", key, TRUE)
               /\ UNCHANGED <<last_mac, halted, clock>>

\* compact(); ret is what shrink returned
TCompact ==
    /\ halted = "no"
    /\ UNCHANGED <<swVars, lockVars, gathers>>
    /\ LET t == compact(ThisTable, heap)
       IN IF t.abort THEN Halt("assert", Call("compact", NoKey, FALSE))
          ELSE /\ SetTable(t)
               /\ op' = Call("compact", NoKey, shrinkNeeded(_size, _capacity))
               /\ UNCHANGED <<heap, last_mac, halted, inserted, clock>>

\* The keys the caller of SpecTable passes: MAC 7 on networks 1 and 2 (equal hash,
\* unequal key, the last slot while the capacity is 8) and MAC 8 (the slot after it).
\* MAC 1 is only passed to erase: its hash fails the assert.
TableKeys == {Key(7, 1), Key(7, 2), Key(8, 1)}
EraseKeys == TableKeys \cup {Key(1, 1)}

\* the objects allocated for a key
ObjectsOf(key) == {p \in DOMAIN heap : KeyEq(key, heap[p])}

TInsert == \E key \in TableKeys : Cardinality(ObjectsOf(key)) < MaxDup /\ TSet(key)
TRemove == \E key \in EraseKeys : TErase(key)

TNext ==
    \/ TInsert
    \/ TRemove

SpecTable == TInit /\ [][TNext]_vars

-----------------------------------------------------------------------------
(* The table filled and emptied like a stack: the i-th key is inserted when i-1 *)
(* entries are live and erased when i are, and compact is called at any time.   *)
(* Two consecutive keys share their MAC, so every second insert collides; the    *)
(* MACs are the odd numbers from 7 on, so the first pair wraps around the array. *)

FillKey(i) == Key(7 + 2 * ((i - 1) \div 2), 1 + ((i - 1) % 2))

FPush == _size < NumFill /\ TSet(FillKey(_size + 1))
FPop == _size > 0 /\ TErase(FillKey(_size))

FNext ==
    \/ FPush
    \/ FPop
    \/ TCompact

SpecFill == TInit /\ [][FNext]_vars

-----------------------------------------------------------------------------
(* The table and eight keys of one network whose hashes lead to the eight slots of  *)
(* the smallest array: a key is inserted when it is not in the table, any key is    *)
(* erased, and compact is called at any time.                                       *)

ChainKeys == {Key(mac, 1) : mac \in min_capacity..(2 * min_capacity - 1)}

ChNext ==
    \/ \E key \in ChainKeys \ inserted : TSet(key)
    \/ \E key \in ChainKeys : TErase(key)
    \/ TCompact

SpecChain == TInit /\ [][ChNext]_vars

-----------------------------------------------------------------------------
(* Constants.hpp and OutboundMulticast.hpp are not among the sources.  The three  *)
(* time constants count in units of the model's clock and keep their order        *)
(* (transmit timeout < explicit gather delay < like expiry).                      *)

ZT_MULTICAST_TRANSMIT_TIMEOUT == 1
ZT_MULTICAST_EXPLICIT_GATHER_DELAY == 2
ZT_MULTICAST_LIKE_EXPIRE == 3
ZT_ADDRESS_LENGTH == 5
ZT_UDP_DEFAULT_PAYLOAD_MTU == 1444

InSeq(x, seq) == \E i \in 1..Len(seq) : seq[i] = x

\* OutboundMulticast::init, as far as the dispatcher reads it back
OutboundMulticast(now, nwid, mac, adi, limit) ==
    [timestamp |-> now, nwid |-> nwid, mac |-> mac, adi |-> adi, limit |-> limit,
     alreadySentTo |-> <<>>]
expired(tx, now) == (now - tx.timestamp) >= ZT_MULTICAST_TRANSMIT_TIMEOUT
atLimit(tx) == Len(tx.alreadySentTo) >= tx.limit
sendAndLog(tx, toAddr) == [tx EXCEPT !.alreadySentTo = Append(@, toAddr)]
\* sendIfNew: whether it sends
isNew(tx, toAddr) == ~InSeq(toAddr, tx.alreadySentTo)

\* one frame handed to Switch::send by sendOnly: whose transmission, to whom
Frame(tx, toAddr) ==
    [nwid |-> tx.nwid, mac |-> tx.mac, adi |-> tx.adi, timestamp |-> tx.timestamp, to |-> toAddr]

-----------------------------------------------------------------------------
(* Multicaster.hpp, Multicaster.cpp *)

Self == 1                    \* RR->identity.address()
StartTime == ZT_MULTICAST_LIKE_EXPIRE   \* the clock has run for a while when the node starts

MulticastGroupMember(a, ts) == [address |-> a, timestamp |-> ts]

\* MGroups::getGroup.  status: "ok", "assert" (an assert failed) or "loop"
GroupResult(status, t, hp, last, ptr) ==
    [status |-> status, t |-> t, hp |-> hp, last |-> last, ptr |-> ptr]

getGroup(t, hp, last, nwid, mac) ==
    LET key == Key(mac, nwid)
        iter == find(t.data, t.capacity, hp, key)
        mgs == NewPtr(hp, nwid, mac)
        hp2 == HeapPut(hp, mgs, MulticastGroupStatus(nwid, mac))
        p == setSlot(t, hp, key)
        t2 == setAt(t, hp2, p, mgs)
    IN IF iter = Hang THEN GroupResult("loop", t, hp, last, 0)
       ELSE IF iter # t.capacity THEN GroupResult("ok", t, hp, last, t.data[iter + 1])
       ELSE IF ~(last # mac) THEN GroupResult("assert", t, hp, last, 0)
       ELSE IF p = Hang THEN GroupResult("loop", t, hp, mac, 0)
       ELSE IF p = t.capacity THEN GroupResult("assert", t, hp, mac, 0)   \* assert(ok)
       ELSE IF t2.abort THEN GroupResult("assert", t, hp, mac, 0)
       ELSE GroupResult("ok", t2, hp2, mac, mgs)

\* MGroups::findGroup: the slot, capacity for end(), or Hang
findGroup(t, hp, nwid, mac) == find(t.data, t.capacity, hp, Key(mac, nwid))

\* mutant of addNotify: a transmission that reaches its limit stays in the queue
RECURSIVE addNotifyKeep(_, _, _, _)
addNotifyKeep(txQueue, member, i, acc) ==
    IF i > Len(txQueue) THEN acc
    ELSE LET tx == txQueue[i]
             tx2 == IF isNew(tx, member) THEN sendAndLog(tx, member) ELSE tx
         IN IF atLimit(tx) THEN addNotifyKeep(txQueue, member, i + 1, acc)
            ELSE addNotifyKeep(txQueue, member, i + 1,
                     [q |-> Append(acc.q, tx2),
                      sent |-> IF isNew(tx, member) THEN Append(acc.sent, Frame(tx, member))
                               ELSE acc.sent])

\* the loop of _add over gs.txQueue, from the i-th transmission on;
\* acc.q: the transmissions kept so far, acc.sent: the frames sent so far
RECURSIVE addNotify(_, _, _, _)
addNotify(txQueue, member, i, acc) ==
    IF i > Len(txQueue) THEN acc
    ELSE LET tx == txQueue[i]
             tx2 == IF isNew(tx, member) THEN sendAndLog(tx, member) ELSE tx
         IN IF atLimit(tx) THEN addNotify(txQueue, member, i + 1, acc)
            ELSE addNotify(txQueue, member, i + 1,
                     [q |-> IF atLimit(tx2) THEN acc.q ELSE Append(acc.q, tx2),
                      sent |-> IF isNew(tx, member) THEN Append(acc.sent, Frame(tx, member))
                               ELSE acc.sent])

\* Multicaster::_add on the group at gs: the heap after it and the frames it sent
AddResult(hp, sent) == [hp |-> hp, sent |-> sent]

_add(hp, size, now, gs, member) ==
    LET members == hp[gs].members
        r == addNotify(hp[gs].txQueue, member, 1, [q |-> <<>>, sent |-> <<>>])
    IN IF size > GroupCeiling THEN AddResult(hp, <<>>)
       ELSE IF member = Self THEN AddResult(hp, <<>>)
       ELSE IF \E m \in 1..Len(members) : members[m].address = member
       THEN LET m == CHOOSE m \in 1..Len(members) :
                         /\ members[m].address = member
                         /\ \A k \in 1..(m - 1) : members[k].address # member
            IN AddResult([hp EXCEPT ![gs].members[m].timestamp = now], <<>>)
       ELSE AddResult([hp EXCEPT ![gs].members = Append(@, MulticastGroupMember(member, now)),
                                 ![gs].txQueue = r.q],
                      r.sent)

\* the loop of addMultiple over the addresses, from the i-th on
RECURSIVE addAll(_, _, _, _, _, _)
addAll(acc, size, now, gs, addresses, i) ==
    IF i > Len(addresses) THEN acc
    ELSE LET r == _add(acc.hp, size, now, gs, addresses[i])
         IN addAll(AddResult(r.hp, acc.sent \o r.sent), size, now, gs, addresses, i + 1)

\* the loops of send over alwaysSendTo and over the shuffled members: the addresses
\* the frame goes to, in order
\* mutant of alwaysLoop: the break at the limit is missing
RECURSIVE alwaysLoopNoBreak(_, _, _, _)
alwaysLoopNoBreak(alwaysSendTo, limit, ast, to) ==
    IF ast > Len(alwaysSendTo) THEN to
    ELSE alwaysLoopNoBreak(alwaysSendTo, limit, ast + 1,
             IF alwaysSendTo[ast] # Self THEN Append(to, alwaysSendTo[ast]) ELSE to)

RECURSIVE alwaysLoop(_, _, _, _)
alwaysLoop(alwaysSendTo, limit, ast, to) ==
    IF ast > Len(alwaysSendTo) THEN to
    ELSE IF alwaysSendTo[ast] # Self
    THEN IF Len(to) + 1 >= limit THEN Append(to, alwaysSendTo[ast])
         ELSE alwaysLoop(alwaysSendTo, limit, ast + 1, Append(to, alwaysSendTo[ast]))
    ELSE alwaysLoop(alwaysSendTo, limit, ast + 1, to)

\* mutant of membersLoop: a member is sent to whether or not alwaysSendTo names it
RECURSIVE membersLoopAll(_, _, _, _, _, _)
membersLoopAll(members, indexes, alwaysSendTo, limit, idx, to) ==
    IF ~(Len(to) < limit /\ idx < Len(members)) THEN to
    ELSE membersLoopAll(members, indexes, alwaysSendTo, limit, idx + 1,
                        Append(to, members[indexes[idx + 1] + 1].address))

RECURSIVE membersLoop(_, _, _, _, _, _)
membersLoop(members, indexes, alwaysSendTo, limit, idx, to) ==
    IF ~(Len(to) < limit /\ idx < Len(members)) THEN to
    ELSE LET ma == members[indexes[idx + 1] + 1].address
         IN membersLoop(members, indexes, alwaysSendTo, limit, idx + 1,
                        IF ~InSeq(ma, alwaysSendTo) THEN Append(to, ma) ELSE to)

fanOut(members, indexes, alwaysSendTo, limit) ==
    membersLoop(members, indexes, alwaysSendTo, limit, 0, alwaysLoop(alwaysSendTo, limit, 1, <<>>))

\* the Fisher-Yates shuffle of send: indexes[i + 1] is the C++ indexes[i];
\* prng[i] is the value RR->node->prng() returns in the round of i
RECURSIVE shuffleFrom(_, _, _)
shuffleFrom(indexes, prng, i) ==
    IF i <= 0 THEN indexes
    ELSE LET j == prng[i] % (i + 1)
         IN shuffleFrom([indexes EXCEPT ![j + 1] = indexes[i + 1], ![i + 1] = indexes[j + 1]],
                        prng, i - 1)

shuffle(n, prng) == shuffleFrom([i \in 1..n |-> i - 1], prng, n - 1)

\* mutant of cleanGroup: a member is kept until its age is above the expiry time
cleanGroupLate(mgs, now) ==
    [mgs EXCEPT
        !.txQueue = SelectSeq(@, LAMBDA tx : ~(expired(tx, now) \/ atLimit(tx))),
        !.members = SelectSeq(@, LAMBDA m : (now - m.timestamp) <= ZT_MULTICAST_LIKE_EXPIRE)]

\* the body of the loop of clean for one group
cleanGroup(mgs, now) ==
    [mgs EXCEPT
        !.txQueue = SelectSeq(@, LAMBDA tx : ~(expired(tx, now) \/ atLimit(tx))),
        !.members = SelectSeq(@, LAMBDA m : (now - m.timestamp) < ZT_MULTICAST_LIKE_EXPIRE)]

\* mutant of cleanFrom: a group is swept but never erased
RECURSIVE cleanFromKeep(_, _, _, _)
cleanFromKeep(t, hp, now, k) ==
    IF k >= t.capacity THEN [t |-> t, hp |-> hp]
    ELSE IF t.data[k + 1] <= dummy_ptr THEN cleanFromKeep(t, hp, now, k + 1)
    ELSE cleanFromKeep(t, [hp EXCEPT ![t.data[k + 1]] = cleanGroup(@, now)], now, k + 1)

\* the loop of clean over the slots from k on: groups swept, empty ones erased
RECURSIVE cleanFrom(_, _, _, _)
cleanFrom(t, hp, now, k) ==
    IF k >= t.capacity THEN [t |-> t, hp |-> hp]
    ELSE IF t.data[k + 1] <= dummy_ptr THEN cleanFrom(t, hp, now, k + 1)
    ELSE LET mm == t.data[k + 1]
             mgs == cleanGroup(hp[mm], now)
         IN IF Len(mgs.members) = 0 /\ Len(mgs.txQueue) = 0
            THEN cleanFrom(eraseAt(t, k), HeapDel(hp, mm), now, k + 1)
            ELSE cleanFrom(t, [hp EXCEPT ![mm] = mgs], now, k + 1)

\* the scan of gather from restart_member_scan on: the address picked for rptr
\* (members hold no address twice and k < Len(members), so one is left to pick;
\* the values drawn for rptr are far below 2^32, so ++rptr does not wrap)
RECURSIVE memberScan(_, _, _)
memberScan(members, picked, rptr) ==
    LET a == members[(rptr % Len(members)) + 1].address
    IN IF InSeq(a, picked) THEN memberScan(members, picked, rptr + 1)
       ELSE a

\* mutant of gatherLoop: the requesting peer is appended like any other member
RECURSIVE gatherLoopAll(_, _, _, _, _)
gatherLoopAll(members, queryingPeer, limit, prng, r) ==
    IF ~(/\ r.added < limit
         /\ Len(r.picked) < Len(members)
         /\ (r.size + ZT_ADDRESS_LENGTH) <= ZT_UDP_DEFAULT_PAYLOAD_MTU) THEN r
    ELSE LET a == memberScan(members, r.picked, prng[Len(r.picked) + 1])
         IN gatherLoopAll(members, queryingPeer, limit, prng,
                [size |-> r.size + ZT_ADDRESS_LENGTH, addrs |-> Append(r.addrs, a),
                 added |-> r.added + 1, picked |-> Append(r.picked, a)])

\* the while loop of gather.  r.size: appendTo.size(), r.addrs: the addresses appended,
\* r.added, r.picked (its length is k); prng[k + 1]: the value RR->node->prng() returns
RECURSIVE gatherLoop(_, _, _, _, _)
gatherLoop(members, queryingPeer, limit, prng, r) ==
    IF ~(/\ r.added < limit
         /\ Len(r.picked) < Len(members)
         /\ (r.size + ZT_ADDRESS_LENGTH) <= ZT_UDP_DEFAULT_PAYLOAD_MTU) THEN r
    ELSE LET a == memberScan(members, r.picked, prng[Len(r.picked) + 1])
         IN gatherLoop(members, queryingPeer, limit, prng,
                IF queryingPeer # a
                THEN [size |-> r.size + ZT_ADDRESS_LENGTH, addrs |-> Append(r.addrs, a),
                      added |-> r.added + 1, picked |-> Append(r.picked, a)]
                ELSE [r EXCEPT !.picked = Append(@, a)])

\* mutant of gather: the local address is appended but not counted
gatherSelfUncounted(members, queryingPeer, size, limit0, subscribed, prng) ==
    LET limit == IF limit0 > 65535 THEN 65535 ELSE limit0
        start == IF subscribed
                 THEN [size |-> size + 4 + 2 + ZT_ADDRESS_LENGTH, addrs |-> <<Self>>,
                       added |-> 0, picked |-> <<>>]
                 ELSE [size |-> size + 4 + 2, addrs |-> <<>>, added |-> 0, picked |-> <<>>]
        r == IF Len(members) > 0 THEN gatherLoop(members, queryingPeer, limit, prng, start)
             ELSE start
    IN IF limit0 = 0
       THEN [ret |-> 0, size |-> size, written |-> FALSE, totalKnown |-> 0, added |-> 0,
             addrs |-> <<>>]
       ELSE [ret |-> r.added, size |-> r.size, written |-> TRUE,
             totalKnown |-> (IF subscribed THEN 1 ELSE 0) + Len(members),
             added |-> r.added, addrs |-> r.addrs]

\* gather on the members of the group (<<>> when findGroup returns end()): what it
\* returns (ret), the packet after it (size, whether the two counts were written and
\* their values, the addresses appended).  size: appendTo.size() at the call,
\* subscribed: whether the local node is subscribed to the group
gather(members, queryingPeer, size, limit0, subscribed, prng) ==
    LET limit == IF limit0 > 65535 THEN 65535 ELSE limit0
        start == IF subscribed
                 THEN [size |-> size + 4 + 2 + ZT_ADDRESS_LENGTH, addrs |-> <<Self>>,
                       added |-> 1, picked |-> <<>>]
                 ELSE [size |-> size + 4 + 2, addrs |-> <<>>, added |-> 0, picked |-> <<>>]
        r == IF Len(members) > 0 THEN gatherLoop(members, queryingPeer, limit, prng, start)
             ELSE start
    IN IF limit0 = 0
       THEN [ret |-> 0, size |-> size, written |-> FALSE, totalKnown |-> 0, added |-> 0,
             addrs |-> <<>>]
       ELSE [ret |-> r.added, size |-> r.size, written |-> TRUE,
             totalKnown |-> (IF subscribed THEN 1 ELSE 0) + Len(members),
             added |-> r.added, addrs |-> r.addrs]

\* the loop of getMembers from the m-th member down
RECURSIVE getMembersFrom(_, _, _, _)
getMembersFrom(members, limit, m, ls) ==
    IF m < 1 THEN ls
    ELSE IF Len(ls) + 1 >= limit THEN Append(ls, members[m].address)
    ELSE getMembersFrom(members, limit, m - 1, Append(ls, members[m].address))

-----------------------------------------------------------------------------
(* The dispatcher: the public operations of Multicaster, called in any order *)

Init ==
    /\ _data = HashArray.data
    /\ _size = HashArray.size
    /\ _capacity = HashArray.capacity
    /\ heap = <<>>
    /\ last_mac = 0              \* MAC()
    /\ halted = "no"
    /\ inserted = {}
    /\ clock = StartTime
    /\ op = [call |-> "new"]
    /\ SwitchInit
    /\ LockInit

\* what every call that returns leaves alone
Returns(now) ==
    /\ clock' = now
    /\ UNCHANGED <<halted, inserted>>

\* add(now, nwid, mg, member)
Add(now, nwid, mac, adi, member) ==
    /\ halted = "no"
    /\ UNCHANGED <<swVars, lockVars, gathers>>
    /\ LET g == getGroup(ThisTable, heap, last_mac, nwid, mac)
           r == _add(g.hp, g.t.size, now, g.ptr, member)
           call == [call |-> "add", now |-> now, nwid |-> nwid, mac |-> mac, adi |-> adi,
                    member |-> member]
       IN IF g.status # "ok" THEN Halt(g.status, call)
          ELSE /\ SetTable(g.t)
               /\ heap' = r.hp
               /\ last_mac' = g.last
               /\ op' = [call EXCEPT !.call = "add"] @@ [sent |-> r.sent]
               /\ Returns(now)

\* addMultiple(now, nwid, mg, addresses, count, totalKnown)
AddMultiple(now, nwid, mac, adi, addresses) ==
    /\ halted = "no"
    /\ UNCHANGED <<swVars, lockVars, gathers>>
    /\ LET g == getGroup(ThisTable, heap, last_mac, nwid, mac)
           r == addAll(AddResult(g.hp, <<>>), g.t.size, now, g.ptr, addresses, 1)
           call == [call |-> "addMultiple", now |-> now, nwid |-> nwid, mac |-> mac,
                    adi |-> adi, addresses |-> addresses]
       IN IF _size > GroupCeiling
          THEN /\ op' = call @@ [sent |-> <<>>]
               /\ UNCHANGED <<_data, _size, _capacity, heap, last_mac>>
               /\ Returns(now)
          ELSE IF g.status # "ok" THEN Halt(g.status, call)
          ELSE /\ SetTable(g.t)
               /\ heap' = r.hp
               /\ last_mac' = g.last
               /\ op' = call @@ [sent |-> r.sent]
               /\ Returns(now)

\* remove(nwid, mg, member)
Remove(nwid, mac, adi, member) ==
    /\ halted = "no"
    /\ UNCHANGED <<swVars, lockVars, gathers>>
    /\ LET g == findGroup(ThisTable, heap, nwid, mac)
           gs == _data[g + 1]
           members == heap[gs].members
           call == [call |-> "remove", nwid |-> nwid, mac |-> mac, adi |-> adi,
                    member |-> member]
       IN IF g = Hang THEN Halt("loop", call)
          ELSE /\ heap' = IF g # _capacity /\ \E m \in 1..Len(members) : members[m].address = member
                          THEN LET m == CHOOSE m \in 1..Len(members) :
                                            /\ members[m].address = member
                                            /\ \A k \in 1..(m - 1) : members[k].address # member
                               IN [heap EXCEPT ![gs].members =
                                       SubSeq(members, 1, m - 1) \o SubSeq(members, m + 1, Len(members))]
                          ELSE heap
               /\ op' = call
               /\ UNCHANGED <<_data, _size, _capacity, last_mac, halted, inserted, clock>>

\* mutant of sendDirect: a group with exactly limit members is not enough
sendDirectAbove(members, limit) == Len(members) > limit

\* the test of send between its two branches: enough members are known to send now
sendDirect(members, limit) == Len(members) >= limit

\* send(com, limit, now, nwid, alwaysSendTo, mg, src, etherType, data, len);
\* prng: the random numbers of the shuffle.  In the queued branch, when a gather is
\* due, getBestRoot() finds a peer or not: op.gather tells whether the request went out
Send(limit, now, nwid, alwaysSendTo, mac, adi, prng) ==
    /\ halted = "no"
    /\ UNCHANGED <<swVars, lockVars>>
    /\ LET g == getGroup(ThisTable, heap, last_mac, nwid, mac)
           gs == g.ptr
           members == g.hp[gs].members
           indexes == shuffle(Len(members), prng)
           to == fanOut(members, indexes, alwaysSendTo, limit)
           out == OutboundMulticast(now, nwid, mac, adi, limit)
           direct == sendDirect(members, limit)
           due == (now - g.hp[gs].lastExplicitGather) >= ZT_MULTICAST_EXPLICIT_GATHER_DELAY
           call == [call |-> "send", now |-> now, nwid |-> nwid, mac |-> mac, adi |-> adi,
                    limit |-> limit, alwaysSendTo |-> alwaysSendTo]
       IN IF g.status # "ok" THEN Halt(g.status, call) /\ UNCHANGED gathers
          ELSE /\ SetTable(g.t)
               /\ last_mac' = g.last
               /\ heap' = IF direct THEN g.hp
                          ELSE [g.hp EXCEPT
                                   ![gs].lastExplicitGather = IF due THEN now ELSE @,
                                   ![gs].txQueue = Append(@, [out EXCEPT !.alreadySentTo = to])]
               /\ \E root \in (IF ~direct /\ due THEN BOOLEAN ELSE {FALSE}) :
                      /\ op' = call @@ [direct |-> direct, gather |-> root,
                                        sent |-> [i \in 1..Len(to) |-> Frame(out, to[i])]]
                      /\ gathers' = IF root
                                    THEN [k \in (DOMAIN gathers) \cup {<<nwid, mac, adi>>} |->
                                             IF k = <<nwid, mac, adi>> THEN now ELSE gathers[k]]
                                    ELSE gathers
               /\ Returns(now)

\* the number of members, and of transmissions, that the group states of hp hold
RECURSIVE Held(_, _)
Held(hp, S) ==
    IF S = {} THEN [members |-> 0, txQueue |-> 0]
    ELSE LET p == CHOOSE q \in S : TRUE
             rest == Held(hp, S \ {p})
         IN [members |-> Len(hp[p].members) + rest.members,
             txQueue |-> Len(hp[p].txQueue) + rest.txQueue]

\* clean(now); op tells how many members, transmissions and groups it took out
Clean(now) ==
    /\ halted = "no"
    /\ UNCHANGED <<swVars, lockVars, gathers>>
    /\ LET c == cleanFrom(ThisTable, heap, now, 0)
           t == compact(c.t, c.hp)
           before == Held(heap, DOMAIN heap)
           after == Held(c.hp, DOMAIN c.hp)
       IN IF t.abort THEN Halt("assert", [call |-> "clean", now |-> now])
          ELSE /\ SetTable(t)
               /\ heap' = c.hp
               /\ op' = [call |-> "clean", now |-> now,
                         members |-> before.members - after.members,
                         txQueue |-> before.txQueue - after.txQueue,
                         groups |-> _size - t.size]
               /\ UNCHANGED last_mac
               /\ Returns(now)

\* gather(queryingPeer, nwid, mg, appendTo, limit); size: appendTo.size() at the call
Gather(queryingPeer, nwid, mac, adi, size, limit, subscribed, prng) ==
    /\ halted = "no"
    /\ UNCHANGED <<swVars, lockVars, gathers>>
    /\ LET gs == findGroup(ThisTable, heap, nwid, mac)
           members == IF gs # _capacity THEN heap[_data[gs + 1]].members ELSE <<>>
           call == [call |-> "gather", nwid |-> nwid, mac |-> mac, adi |-> adi,
                    limit |-> limit, queryingPeer |-> queryingPeer, size |-> size,
                    subscribed |-> subscribed]
       IN IF limit # 0 /\ gs = Hang THEN Halt("loop", call)
          ELSE /\ op' = call @@ [out |-> gather(IF limit # 0 THEN members ELSE <<>>,
                                                queryingPeer, size, limit, subscribed, prng)]
               /\ UNCHANGED <<_data, _size, _capacity, heap, last_mac, halted, inserted, clock>>

\* getMembers(nwid, mg, limit)
GetMembers(nwid, mac, adi, limit) ==
    /\ halted = "no"
    /\ UNCHANGED <<swVars, lockVars, gathers>>
    /\ LET gs == findGroup(ThisTable, heap, nwid, mac)
           members == heap[_data[gs + 1]].members
           call == [call |-> "getMembers", nwid |-> nwid, mac |-> mac, adi |-> adi,
                    limit |-> limit]
       IN IF gs = Hang THEN Halt("loop", call)
          ELSE /\ op' = call @@ [ret |-> IF gs = _capacity THEN <<>>
                                         ELSE getMembersFrom(members, limit, Len(members), <<>>)]
               /\ UNCHANGED <<_data, _size, _capacity, heap, last_mac, halted, inserted, clock>>

-----------------------------------------------------------------------------
(* The callers.  G: the groups they name (network, MAC, ADI), A: the addresses,   *)
(* AL: the address lists, L: the limits, T: the ticks of their clock.              *)

\* the values of now the caller may pass next: the clock never runs backwards and
\* advances T times at most
Nows(T) == {n \in clock..(clock + 1) : n <= StartTime + T}
\* the group state of (nwid, mac), if there is one
Known(nwid, mac) == findGroup(ThisTable, heap, nwid, mac) \in 0..(_capacity - 1)
StatusOf(nwid, mac) == heap[_data[findGroup(ThisTable, heap, nwid, mac) + 1]]
MembersOf(nwid, mac) == IF Known(nwid, mac) THEN StatusOf(nwid, mac).members ELSE <<>>
\* the transmissions pending in the store
RECURSIVE SumLen(_)
SumLen(S) == IF S = {} THEN 0
             ELSE LET x == CHOOSE y \in S : TRUE IN Len(heap[x].txQueue) + SumLen(S \ {x})
Pending == SumLen(DOMAIN heap)
\* the values RR->node->prng() returns to a loop over n members
Prngs(n) == [1..n -> 0..(n - 1)]

DoAdd(G, A, T) == \E now \in Nows(T), g \in G, member \in A :
    Add(now, g[1], g[2], g[3], member)
DoAddMultiple(G, AL, T) == \E now \in Nows(T), g \in G, addresses \in AL :
    AddMultiple(now, g[1], g[2], g[3], addresses)
DoRemove(G, A) == \E g \in G, member \in A :
    Remove(g[1], g[2], g[3], member)
\* Q: a send that will queue a transmission is called while fewer than Q are pending
DoSend(G, L, AL, Q, T) == \E limit \in L, now \in Nows(T), g \in G, alwaysSendTo \in AL :
    \E prng \in Prngs(Len(MembersOf(g[1], g[2])) - 1) :
        /\ Len(MembersOf(g[1], g[2])) >= limit \/ Pending < Q
        /\ Send(limit, now, g[1], alwaysSendTo, g[2], g[3], prng)
DoClean(T) == \E now \in Nows(T) : Clean(now)
DoGather(G, A, L, Sizes) == \E queryingPeer \in A, g \in G, size \in Sizes, limit \in L,
                              subscribed \in BOOLEAN :
    \E prng \in Prngs(Len(MembersOf(g[1], g[2]))) :
        Gather(queryingPeer, g[1], g[2], g[3], size, limit, subscribed, prng)
DoGetMembers(G, L) == \E g \in G, limit \in L :
    GetMembers(g[1], g[2], g[3], limit)

-----------------------------------------------------------------------------
(* The dispatcher of a node on two networks that knows one peer.  The MACs 9 and   *)
(* 17 hash to the same slot while the capacity is 8; the group 9 exists on both    *)
(* networks.  Every send is a direct one, and the clock stands still.              *)

Groups == {<<1, 9, 0>>, <<2, 9, 0>>, <<1, 17, 0>>}
Peers == {2}
Addresses == {Self} \cup Peers
AddressLists == {<<>>, <<Self, 2>>}
Limits == 0..1
PacketSizes == {28}

Next ==
    \/ DoAdd(Groups, Addresses, 0)
    \/ DoAddMultiple(Groups, AddressLists, 0)
    \/ DoRemove(Groups, Peers)
    \/ DoSend(Groups, Limits, AddressLists, 0, 0)
    \/ DoClean(0)
    \/ DoGather(Groups, Peers, Limits, PacketSizes)
    \/ DoGetMembers(Groups, Limits)

Spec == Init /\ [][Next]_vars

-----------------------------------------------------------------------------
(* One group and two peers: members come and go, frames are sent directly or      *)
(* queued, the clock advances and clean sweeps.                                    *)

SendGroups == {<<1, 9, 0>>}
SendPeers == {2, 3}
SendLists == {<<>>, <<2>>, <<Self, 3>>}
SendLimits == 0..2

SNext ==
    \/ DoAdd(SendGroups, SendPeers, MaxTicks)
    \/ DoAddMultiple(SendGroups, SendLists, MaxTicks)
    \/ DoRemove(SendGroups, SendPeers)
    \/ DoSend(SendGroups, SendLimits, SendLists, MaxTx, MaxTicks)
    \/ DoClean(MaxTicks)

SpecSend == Init /\ [][SNext]_vars

-----------------------------------------------------------------------------
(* Groups are named one after another by add, addMultiple and send, none is swept. *)

CeilingGroups == {<<1, 9, 0>>, <<1, 10, 0>>, <<2, 10, 0>>, <<1, 11, 0>>, <<2, 12, 0>>}

CNext ==
    \/ DoAdd(CeilingGroups, Peers, 0)
    \/ DoAddMultiple(CeilingGroups, {<<2>>}, 0)
    \/ DoSend(CeilingGroups, {0}, {<<>>}, 0, 0)

SpecCeiling == Init /\ [][CNext]_vars

-----------------------------------------------------------------------------
(* One group and two peers, and a caller of send whose alwaysSendTo lists are      *)
(* longer than the limit, name a peer twice, or name a member.                     *)

FanGroups == {<<1, 9, 0>>}
FanPeers == {2, 3}
FanLists == {<<>>, <<2, 2>>, <<3, 2>>, <<Self, 3>>}
FanLimits == 1..2

FanNext ==
    \/ DoAdd(FanGroups, FanPeers, MaxTicks)
    \/ DoAddMultiple(FanGroups, {<<Self, 2, 3>>}, MaxTicks)
    \/ DoRemove(FanGroups, FanPeers)
    \/ DoSend(FanGroups, FanLimits, FanLists, MaxTx, MaxTicks)
    \/ DoClean(MaxTicks)

SpecFanOut == Init /\ [][FanNext]_vars

-----------------------------------------------------------------------------
(* Three groups of one network and one peer that is announced again and again,     *)
(* while the clock advances: the third group brings the store above the ceiling.   *)

RefreshGroups == {<<1, 9, 0>>, <<1, 10, 0>>, <<1, 11, 0>>}

RNext ==
    \/ DoAdd(RefreshGroups, Peers, MaxTicks)
    \/ DoAddMultiple(RefreshGroups, {<<2, 2>>}, MaxTicks)
    \/ DoRemove(RefreshGroups, Peers)
    \/ DoClean(MaxTicks)

SpecRefresh == Init /\ [][RNext]_vars

-----------------------------------------------------------------------------
(* Two groups whose two peers come and go, and both of them ask for the members,    *)
(* with a packet that has room and with one that is nearly full.                   *)

GatherGroups == {<<1, 9, 0>>, <<1, 17, 0>>}
GatherPeers == {2, 3}
GatherLimits == 0..2
GatherSizes == {28, ZT_UDP_DEFAULT_PAYLOAD_MTU - 14}

GNext ==
    \/ DoAdd(GatherGroups, GatherPeers, 0)
    \/ DoRemove(GatherGroups, GatherPeers)
    \/ DoGather(GatherGroups, GatherPeers, GatherLimits, GatherSizes)

SpecGather == Init /\ [][GNext]_vars

-----------------------------------------------------------------------------
(* A group with two peers and sends that queue, beside a group of one peer that     *)
(* hashes to the same slot, and a clock that runs for one expiry time of a member:  *)
(* clean finds members and transmissions of every age.                              *)

CleanGroups == {<<1, 9, 0>>}
CleanPeers == {2, 3}
CleanOthers == {<<1, 17, 0>>}
CleanLists == {<<>>}
CleanLimits == {2}
CleanTicks == ZT_MULTICAST_LIKE_EXPIRE

ClNext ==
    \/ DoAdd(CleanGroups, CleanPeers, CleanTicks)
    \/ DoAdd(CleanOthers, Peers, CleanTicks)
    \/ DoSend(CleanGroups, CleanLimits, CleanLists, MaxTx, CleanTicks)
    \/ DoClean(CleanTicks)

SpecClean == Init /\ [][ClNext]_vars

-----------------------------------------------------------------------------
(* Groups that live for a moment: they are named one after another, with MACs that  *)
(* hash to the eight slots in turn, hold no member but the peer announced to the    *)
(* first, and are swept by clean; getMembers looks them up.                         *)

SweepMacs == 8..15
SweepGroups == {<<1, mac, 0>> : mac \in SweepMacs}
\* the slots that are not free
UsedSlots == Cardinality({i \in 1.._capacity : _data[i] # free_ptr})

SwNext ==
    \/ /\ UsedSlots < Cardinality(SweepMacs)
       /\ DoAdd({<<1, 8 + UsedSlots, 0>>}, {Self}, 0)
    \/ DoAdd({<<1, 8, 0>>}, Peers, 0)
    \/ DoClean(0)
    \/ DoGetMembers(SweepGroups, {1})

SpecSweep == Init /\ [][SwNext]_vars

-----------------------------------------------------------------------------
(* One group that learns its two peers while transmissions with limits 1 and 2 are  *)
(* pending, some of which went to a peer of alwaysSendTo already.                   *)

NotifyGroups == {<<1, 9, 0>>}
NotifyPeers == {2, 3}
NotifyLists == {<<>>, <<3>>}
NotifyLimits == 1..2

NNext ==
    \/ DoAdd(NotifyGroups, NotifyPeers, 0)
    \/ DoRemove(NotifyGroups, NotifyPeers)
    \/ DoSend(NotifyGroups, NotifyLimits, NotifyLists, MaxTx + 1, 0)
    \/ DoClean(0)

SpecNotify == Init /\ [][NNext]_vars

-----------------------------------------------------------------------------
(* Two groups of one network that share their MAC and differ in the ADI, and two    *)
(* peers that join the one or the other while frames are sent and queued.           *)

AdiGroups == {<<1, 9, 0>>, <<1, 9, 1>>}
AdiPeers == {2, 3}
AdiLimits == {2}

ANext ==
    \/ DoAdd(AdiGroups, AdiPeers, 0)
    \/ DoRemove(AdiGroups, AdiPeers)
    \/ DoSend(AdiGroups, AdiLimits, {<<>>}, MaxTx, 0)
    \/ DoGetMembers(AdiGroups, AdiLimits)

SpecAdi == Init /\ [][ANext]_vars

-----------------------------------------------------------------------------
(* Two groups to which frames are sent while they have no member, so that every     *)
(* send queues and asks upstream when it is due; a peer joins and leaves, the clock *)
(* runs for one explicit-gather delay and clean sweeps.                             *)

RateGroups == {<<1, 9, 0>>, <<1, 10, 0>>}
RateLimits == {1}
RateTicks == ZT_MULTICAST_EXPLICIT_GATHER_DELAY

RaNext ==
    \/ DoAdd(RateGroups, {Self}, RateTicks)
    \/ DoSend(RateGroups, RateLimits, {<<>>}, MaxTx, RateTicks)
    \/ DoClean(RateTicks)

SpecRate == Init /\ [][RaNext]_vars

-----------------------------------------------------------------------------
(* Two threads that call the public operations of the dispatcher at any time.  An   *)
(* operation is in the group store (at = "store") from the point where it first     *)
(* touches _groups until it returns.                                                *)

\* the operations that construct a Mutex::Lock on _groups_m before they touch _groups
Locking == {"add", "addMultiple", "remove", "gather", "getMembers", "send", "clean"}
\* printAll touches _groups with no Mutex::Lock
Operations == Locking \cup {"printAll"}
\* the operations that insert into the table, erase from it or resize it
Writers == {"add", "addMultiple", "send", "clean"}

\* a thread enters an operation
Enter(t, o) ==
    /\ threads[t].at = "idle"
    /\ threads' = [threads EXCEPT ![t] = [call |-> o, at |-> "called"]]
    /\ UNCHANGED <<_groups_m, gathers, op, clock>>
    /\ UNCHANGED <<_data, _size, _capacity, heap, last_mac, halted, inserted, swVars>>

\* Mutex::Lock _l(_groups_m): the thread waits until the lock is free and takes it
Lock(t) ==
    /\ threads[t].at = "called" /\ threads[t].call \in Locking
    /\ _groups_m = 0
    /\ _groups_m' = t
    /\ threads' = [threads EXCEPT ![t].at = "store"]
    /\ UNCHANGED <<gathers, op, clock>>
    /\ UNCHANGED <<_data, _size, _capacity, heap, last_mac, halted, inserted, swVars>>

\* printAll: _groups.begin() and the loop over the store, no lock is taken
Iterate(t) ==
    /\ threads[t].at = "called" /\ threads[t].call \notin Locking
    /\ threads' = [threads EXCEPT ![t].at = "store"]
    /\ UNCHANGED <<_groups_m, gathers, op, clock>>
    /\ UNCHANGED <<_data, _size, _capacity, heap, last_mac, halted, inserted, swVars>>

\* the operation returns; ~Lock releases the lock if the thread holds it
Leave(t) ==
    /\ threads[t].at = "store"
    /\ threads' = [threads EXCEPT ![t] = [call |-> "none", at |-> "idle"]]
    /\ _groups_m' = IF _groups_m = t THEN 0 ELSE _groups_m
    /\ UNCHANGED <<gathers, op, clock>>
    /\ UNCHANGED <<_data, _size, _capacity, heap, last_mac, halted, inserted, swVars>>

LNext ==
    \/ \E t \in Threads, o \in Operations : Enter(t, o)
    \/ \E t \in Threads : Lock(t)
    \/ \E t \in Threads : Iterate(t)
    \/ \E t \in Threads : Leave(t)

SpecLock == Init /\ [][LNext]_vars

-----------------------------------------------------------------------------
(* Switch.hpp.  Switch.cpp, Topology.hpp and Constants.hpp are not among the       *)
(* sources: the operations follow the declarations of Switch.hpp, their comments   *)
(* and the design document; the time constants count in units of the model's clock. *)

MaxPackets == 2     \* SpecWhois: Switch::send is called MaxPackets times

ZT_MAX_WHOIS_RETRIES == 3
ZT_WHOIS_RETRY_DELAY == 1
ZT_TRANSMIT_QUEUE_TIMEOUT == 1
ZT_MIN_UNITE_INTERVAL == 2
NullAddress == 0    \* Address()

\* the state of the dispatcher and of its table
mcVars == <<_data, _size, _capacity, heap, last_mac, halted, inserted, gathers, lockVars>>

\* struct WhoisRequest; peersConsulted holds the entries written so far
WhoisRequest(lastSent) == [lastSent |-> lastSent, peersConsulted |-> <<>>, retries |-> 0]

\* a packet as the switch sees it: its destination and which one it is
Packet(destination, id) == [destination |-> destination, id |-> id]

\* mutant of TXQueueEntry: the default constructor, the packet is not copied in
TXQueueEntryNoPacket(ct, p, enc, nw) ==
    [creationTime |-> ct, nwid |-> nw, packet |-> Packet(NullAddress, 0), encrypt |-> enc]

\* struct TXQueueEntry, its constructor
TXQueueEntry(ct, p, enc, nw) ==
    [creationTime |-> ct, nwid |-> nw, packet |-> p, encrypt |-> enc]

\* std::multimap::insert on _txQueue: the pair goes behind the pairs whose key is
\* not above its key, so pairs of one key stay in the order they were inserted
txInsert(q, addr, e) ==
    LET n == Cardinality({i \in 1..Len(q) : q[i].first <= addr})
    IN SubSeq(q, 1, n) \o <<[first |-> addr, second |-> e]>> \o SubSeq(q, n + 1, Len(q))

\* the pairs of _txQueue for one address, and the packets of a run of pairs
QueuedFor(addr) == SelectSeq(_txQueue, LAMBDA e : e.first = addr)
PacketsOf(q) == [i \in 1..Len(q) |-> q[i].second.packet]

\* a map without the entry of addr
MapErase(map, addr) == [a \in (DOMAIN map) \ {addr} |-> map[a]]
MapPut(map, addr, v) == [a \in (DOMAIN map) \cup {addr} |-> IF a = addr THEN v ELSE map[a]]

\* mutant of Candidates: the peers consulted before are asked again
CandidatesAgain(known, addr, consulted) ==
    IF Upstream \ {addr} # {} THEN Upstream \ {addr} ELSE {NullAddress}

\* _sendWhoisRequest(addr, peersAlreadyConsulted, numPeersAlreadyConsulted): the peers
\* it may direct the lookup to (it returns the one it chose): an upstream peer not yet
\* consulted, failing that any known peer not yet consulted; the null address if none
Candidates(known, addr, consulted) ==
    LET roots == {a \in Upstream : ~InSeq(a, consulted)}
        others == {a \in known \ {addr, Self} : ~InSeq(a, consulted)}
    IN IF roots # {} THEN roots ELSE IF others # {} THEN others ELSE {NullAddress}

\* one lookup for an entry: sent to peer at now, or not sent (no peer left to ask)
whoisAttempt(r, peer, now) ==
    IF peer = NullAddress THEN r
    ELSE [lastSent |-> now, peersConsulted |-> Append(r.peersConsulted, peer),
          retries |-> r.retries + 1]

\* the WHOIS packets a lookup sends
WhoisSent(addr, peer) ==
    IF peer = NullAddress THEN <<>> ELSE <<[to |-> peer, whois |-> addr]>>

\* requestWhois on the map reqs; peer: the peer _sendWhoisRequest chooses
requestWhois(reqs, addr, now, peer) ==
    IF addr \notin DOMAIN reqs THEN MapPut(reqs, addr, whoisAttempt(WhoisRequest(now), peer, now))
    ELSE IF reqs[addr].retries < ZT_MAX_WHOIS_RETRIES
    THEN MapPut(reqs, addr, whoisAttempt(reqs[addr], peer, now))
    ELSE reqs
\* whether that call sends a lookup
requestSends(reqs, addr, peer) ==
    /\ peer # NullAddress
    /\ addr \in DOMAIN reqs => reqs[addr].retries < ZT_MAX_WHOIS_RETRIES

ConsultedFor(reqs, addr) == IF addr \in DOMAIN reqs THEN reqs[addr].peersConsulted ELSE <<>>

\* requestWhois(addr)
RequestWhois(addr, now) ==
    /\ halted = "no"
    /\ \E peer \in Candidates(topology, addr, ConsultedFor(_outstandingWhoisRequests, addr)) :
          /\ _outstandingWhoisRequests' = requestWhois(_outstandingWhoisRequests, addr, now, peer)
          /\ op' = [call |-> "requestWhois", addr |-> addr, now |-> now,
                    whois |-> IF requestSends(_outstandingWhoisRequests, addr, peer)
                              THEN WhoisSent(addr, peer) ELSE <<>>]
    /\ clock' = now
    /\ UNCHANGED <<_txQueue, _lastUniteAttempt, topology, composed>>
    /\ UNCHANGED mcVars

\* cancelWhoisRequest(addr)
CancelWhoisRequest(addr) ==
    /\ halted = "no"
    /\ _outstandingWhoisRequests' = MapErase(_outstandingWhoisRequests, addr)
    /\ op' = [call |-> "cancelWhoisRequest", addr |-> addr]
    /\ UNCHANGED <<_txQueue, _lastUniteAttempt, topology, composed, clock>>
    /\ UNCHANGED mcVars

\* send(packet, encrypt, nwid): sent at once to a known peer, queued otherwise, and a
\* WHOIS is requested if none is outstanding for the destination
SwitchSend(destination, now) ==
    /\ halted = "no"
    /\ LET packet == Packet(destination, composed + 1)
           call == [call |-> "send", now |-> now, packet |-> packet]
       IN IF destination \in topology
          THEN /\ op' = call @@ [sent |-> <<packet>>, whois |-> <<>>]
               /\ UNCHANGED <<_txQueue, _outstandingWhoisRequests>>
          ELSE /\ _txQueue' = txInsert(_txQueue, destination, TXQueueEntry(now, packet, TRUE, 0))
               /\ IF destination \in DOMAIN _outstandingWhoisRequests
                  THEN /\ op' = call @@ [sent |-> <<>>, whois |-> <<>>]
                       /\ UNCHANGED _outstandingWhoisRequests
                  ELSE \E peer \in Candidates(topology, destination, <<>>) :
                          /\ _outstandingWhoisRequests' =
                                 requestWhois(_outstandingWhoisRequests, destination, now, peer)
                          /\ op' = call @@ [sent |-> <<>>, whois |-> WhoisSent(destination, peer)]
    /\ composed' = composed + 1
    /\ clock' = now
    /\ UNCHANGED <<_lastUniteAttempt, topology>>
    /\ UNCHANGED mcVars

\* doAnythingWaitingForPeer(peer), called when the identity of peer is learned: the
\* WHOIS request is over, the packets queued for the peer are sent, oldest first
DoAnythingWaitingForPeer(peer) ==
    /\ halted = "no"
    /\ topology' = topology \cup {peer}
    /\ _outstandingWhoisRequests' = MapErase(_outstandingWhoisRequests, peer)
    /\ _txQueue' = SelectSeq(_txQueue, LAMBDA e : e.first # peer)
    /\ op' = [call |-> "doAnythingWaitingForPeer", peer |-> peer,
              sent |-> PacketsOf(QueuedFor(peer))]
    /\ UNCHANGED <<_lastUniteAttempt, composed, clock>>
    /\ UNCHANGED mcVars

\* the WHOIS pass of doTimerTasks for one entry: nothing while the retry delay has not
\* passed, the entry is dropped once it has had all its retries, else one more lookup
timerWhois(r, peer, now) ==
    IF (now - r.lastSent) < ZT_WHOIS_RETRY_DELAY THEN <<r>>
    ELSE IF r.retries >= ZT_MAX_WHOIS_RETRIES THEN <<>>
    ELSE <<whoisAttempt(r, peer, now)>>

\* doTimerTasks(now), as far as the WHOIS requests and the TX queue go;
\* peers[a]: the peer _sendWhoisRequest chooses for the request of a
DoTimerTasks(now, peers) ==
    /\ halted = "no"
    /\ LET reqs == _outstandingWhoisRequests
           kept == {a \in DOMAIN reqs : timerWhois(reqs[a], peers[a], now) # <<>>}
       IN /\ _outstandingWhoisRequests' = [a \in kept |-> timerWhois(reqs[a], peers[a], now)[1]]
          /\ _txQueue' = SelectSeq(_txQueue,
                 LAMBDA e : (now - e.second.creationTime) <= ZT_TRANSMIT_QUEUE_TIMEOUT)
          /\ op' = [call |-> "doTimerTasks", now |-> now,
                    dropped |-> (DOMAIN reqs) \ kept,
                    expired |-> Len(_txQueue) - Len(_txQueue')]
    /\ clock' = now
    /\ UNCHANGED <<_lastUniteAttempt, topology, composed>>
    /\ UNCHANGED mcVars

\* mutant of UniteKey: the pair as the caller gave it
UniteKeyAsGiven(p1, p2) == <<p1, p2>>

\* the key of _lastUniteAttempt: always sorted in ascending order
UniteKey(p1, p2) == IF p1 <= p2 THEN <<p1, p2>> ELSE <<p2, p1>>

\* unite(p1, p2, force); paths: both peers are known and have a best path at now
Unite(p1, p2, force, now, paths) ==
    /\ halted = "no"
    /\ LET key == UniteKey(p1, p2)
           limited == /\ key \in DOMAIN _lastUniteAttempt
                      /\ (now - _lastUniteAttempt[key]) < ZT_MIN_UNITE_INTERVAL
                      /\ ~force
           go == ~limited /\ paths
       IN /\ _lastUniteAttempt' = IF go THEN MapPut(_lastUniteAttempt, key, now)
                                  ELSE _lastUniteAttempt
          /\ op' = [call |-> "unite", p1 |-> p1, p2 |-> p2, force |-> force, now |-> now,
                    paths |-> paths, ret |-> go,
                    sent |-> IF go THEN <<[to |-> p1, with |-> p2], [to |-> p2, with |-> p1]>>
                             ELSE <<>>]
    /\ clock' = now
    /\ UNCHANGED <<_outstandingWhoisRequests, _txQueue, topology, composed>>
    /\ UNCHANGED mcVars

-----------------------------------------------------------------------------
(* The switch of a node that has packets for two addresses it does not know: it    *)
(* queues them and asks for the identities, which arrive, or do not, while the     *)
(* timer runs.                                                                     *)

WhoisTargets == {4, 5}
WhoisTicks == ZT_TRANSMIT_QUEUE_TIMEOUT + 1

WNext ==
    \/ \E now \in Nows(WhoisTicks), addr \in WhoisTargets :
           composed < MaxPackets /\ SwitchSend(addr, now)
    \/ \E now \in Nows(WhoisTicks), addr \in WhoisTargets : RequestWhois(addr, now)
    \/ \E addr \in WhoisTargets : CancelWhoisRequest(addr)
    \/ \E peer \in WhoisTargets : DoAnythingWaitingForPeer(peer)
    \/ \E now \in Nows(WhoisTicks) :
           \E peers \in [DOMAIN _outstandingWhoisRequests -> topology \cup {NullAddress}] :
               /\ \A a \in DOMAIN _outstandingWhoisRequests :
                      peers[a] \in Candidates(topology, a, _outstandingWhoisRequests[a].peersConsulted)
               /\ DoTimerTasks(now, peers)

SpecWhois == Init /\ [][WNext]_vars

-----------------------------------------------------------------------------
(* The switch asked to unite three peers, pair by pair and in either order, while   *)
(* the clock runs past the unite interval.                                          *)

UnitePeers == {2, 3, 4}
UniteTicks == ZT_MIN_UNITE_INTERVAL + 1

UNext ==
    \E now \in Nows(UniteTicks), p1 \in UnitePeers, p2 \in UnitePeers, force \in BOOLEAN,
       paths \in BOOLEAN :
        p1 # p2 /\ Unite(p1, p2, force, now, paths)

SpecUnite == Init /\ [][UNext]_vars

-----------------------------------------------------------------------------
(* Properties of the table *)

\* the slots that hold an entry, the entries, and the keys of the entries
LiveSlots == {i \in 1.._capacity : _data[i] > dummy_ptr}
LivePtrs == {_data[i] : i \in LiveSlots}
KeyOf(mgs) == Key(mgs.mac, mgs.nwid)

\* find(key) returns an iterator to an entry that is equal to key
FoundLive(key) ==
    LET p == find(_data, _capacity, heap, key)
    IN /\ p \in 0..(_capacity - 1)
       /\ _data[p + 1] > dummy_ptr
       /\ KeyEq(key, heap[_data[p + 1]])

\* C1: after any sequence of set and erase calls, find(k) returns an entry equal to k
\* if and only if set(k) has returned true and erase(k) has not returned true since,
\* and returns end() otherwise.
C1_FindIffInserted ==
    halted = "no" =>
        \A key \in TableKeys :
            /\ FoundLive(key) <=> key \in inserted
            /\ key \notin inserted => find(_data, _capacity, heap, key) = _capacity

\* C2: the table never holds two live entries equal to the same key, and a set that
\* returned true found no equal live entry (so the key has exactly one entry after it).
C2_NoEqualLiveEntries ==
    /\ \A i, j \in LiveSlots : KeyOf(heap[_data[i]]) = KeyOf(heap[_data[j]]) => i = j
    /\ (halted = "no" /\ op.call = "set" /\ op.ret) =>
           Cardinality({i \in LiveSlots : KeyEq(op.key, heap[_data[i]])}) = 1

\* C6: when compact() has returned, it is not the case that the capacity is above
\* the floor of 8 and the number of live entries is below half the capacity.
C6_CompactToSmallest ==
    (halted = "no" /\ op.call = "compact") =>
        ~(_capacity > min_capacity /\ _size < _capacity \div 2)

\* C7: when compact() has returned, no slot holds a tombstone.
C7_CompactNoTombstone ==
    (halted = "no" /\ op.call = "compact") =>
        \A i \in 1.._capacity : _data[i] # dummy_ptr

\* C8: compact() keeps the live entries: the same objects are in the table before and
\* after, each in exactly one slot, each is found under its key, and size() is unchanged.
C8_CompactKeepsEntries ==
    [][(halted' = "no" /\ op'.call = "compact") =>
           /\ LivePtrs' = LivePtrs
           /\ Cardinality(LiveSlots') = Cardinality(LivePtrs')
           /\ \A p \in LivePtrs : FoundLive(KeyOf(heap[p]))'
           /\ _size' = _size
           /\ _size' = Cardinality(LiveSlots')]_vars

\* C8 witness: a compact() that halved a table which had grown to 32 slots and from
\* which entries had been erased, colliding entries among the ones it kept
C8_Witness ==
    /\ halted = "no" /\ op.call = "compact" /\ op.ret
    /\ _capacity = 16 /\ _size >= 2
    /\ \E i \in 1.._capacity : _data[i] = free_ptr

RECURSIVE Pow2(_)
Pow2(e) == IF e = 0 THEN 1 ELSE 2 * Pow2(e - 1)

\* C9: in every state the capacity is a power of two and at least the floor of 8.
C9_CapacityPowerOfTwo ==
    /\ _capacity >= 8
    /\ \E e \in 0.._capacity : _capacity = Pow2(e)
    /\ Len(_data) = _capacity

\* C9 witness: the table is back at 8 slots after it grew and compact() halved it
C9_Witness ==
    halted = "no" /\ op.call = "compact" /\ op.ret /\ _capacity = 8 /\ _size > 0

-----------------------------------------------------------------------------
(* Properties of the dispatcher *)

\* the elements of a sequence
Range(seq) == {seq[i] : i \in 1..Len(seq)}
\* the addresses the group states made for (nwid, mac) hold as members
MemberAddresses(nwid, mac) ==
    UNION {Range([i \in 1..Len(heap[p].members) |-> heap[p].members[i].address]) :
               p \in {q \in LivePtrs : heap[q].nwid = nwid /\ heap[q].mac = mac}}

\* C3: gather called with limit = 0 appends the 4-byte total and the 2-byte count
\* (value 0) to the packet, so that the packet grows by exactly 6 bytes, and returns 0.
C3_GatherZeroLimitHeader ==
    (halted = "no" /\ op.call = "gather" /\ op.limit = 0) =>
        /\ op.out.ret = 0
        /\ op.out.written /\ op.out.added = 0
        /\ op.out.size = op.size + 6

\* C4: after any sequence of add, addMultiple and send calls the store holds no more
\* groups than the ceiling lets in.  The code tests size() > ceiling before it creates,
\* so the last group let in is the one that makes the size ceiling + 1.
C4_GroupCeiling == _size <= GroupCeiling + 1

\* a call has reported, for the group it names, only addresses that are members of
\* the state of that very (network, group): gather in the packet (the local node aside),
\* getMembers in its result, send in its fan-out (alwaysSendTo aside)
ReportedOwnMembers ==
    /\ (halted = "no" /\ op.call = "gather") =>
           Range(op.out.addrs) \ {Self} \subseteq MemberAddresses(op.nwid, op.mac)
    /\ (halted = "no" /\ op.call = "getMembers") =>
           Range(op.ret) \subseteq MemberAddresses(op.nwid, op.mac)
    /\ (halted = "no" /\ op.call = "send") =>
           {op.sent[i].to : i \in 1..Len(op.sent)} \ Range(op.alwaysSendTo)
               \subseteq MemberAddresses(op.nwid, op.mac)

\* a call that names a group whose address is in the store for another network only
\* has created the state it needs: it has not died on an assert
CreatedBesideOtherNetwork ==
    ~(/\ halted = "assert"
      /\ op.call \in {"add", "addMultiple", "send"}
      /\ ~Known(op.nwid, op.mac)
      /\ \E n \in Nwids \ {op.nwid} : Known(n, op.mac))

\* C5: groups with the same address on two networks are separate states: both can be
\* created in any order, and no call reports for (n2, g) a member added to (n1, g).
C5_NetworksSeparate == CreatedBesideOtherNetwork /\ ReportedOwnMembers

\* C10: a send that returns has appended exactly one transmission to the queue of its
\* group if the group had fewer than limit members at the call, and none otherwise.
C10_SendQueuesIffBelowLimit ==
    [][\A g \in SendGroups :
           (halted' = "no" /\ op'.call = "send" /\ op'.nwid = g[1] /\ op'.mac = g[2]) =>
               LET members == MembersOf(g[1], g[2])
                   before == IF Known(g[1], g[2]) THEN StatusOf(g[1], g[2]).txQueue ELSE <<>>
                   after == StatusOf(g[1], g[2])'.txQueue
               IN IF Len(members) < op'.limit
                  THEN /\ Len(after) = Len(before) + 1
                       /\ SubSeq(after, 1, Len(before)) = before
                  ELSE after = before]_vars

\* C10 witness: a send with limit 2 to a group of one member has queued its frame
C10_Witness ==
    /\ halted = "no" /\ op.call = "send" /\ op.limit = 2 /\ ~op.direct
    /\ Len(MembersOf(op.nwid, op.mac)) = 1
    /\ Len(StatusOf(op.nwid, op.mac).txQueue) = 1

\* the transmissions pending in the store
PendingTx == UNION {Range(heap[p].txQueue) : p \in DOMAIN heap}

\* C11: every transmission in a pending queue has notified at most limit addresses,
\* after any sequence of send, add, remove and clean.
C11_QueuedWithinLimit ==
    \A tx \in PendingTx : Len(tx.alreadySentTo) <= tx.limit

\* C11 witness: a queued send with limit 1 and two peers in alwaysSendTo has stopped
\* after the first, and its transmission is pending
C11_Witness ==
    /\ halted = "no" /\ op.call = "send" /\ ~op.direct /\ op.limit = 1
    /\ op.alwaysSendTo = <<3, 2>>
    /\ \E tx \in PendingTx : tx.alreadySentTo = <<3>> /\ tx.limit = 1

\* no element is in the sequence twice
NoRepeats(seq) == \A i, j \in 1..Len(seq) : seq[i] = seq[j] => i = j
\* the addresses the frames of the last call went to, in order
SentTo == [i \in 1..Len(op.sent) |-> op.sent[i].to]

\* C12: no transmission notifies an address twice: not a send in its fan-out (direct or
\* queued), and not a pending transmission over its fan-out and the later notifications
\* of add and addMultiple, whatever alwaysSendTo list the caller passed.
C12_NoAddressTwice ==
    /\ (halted = "no" /\ op.call = "send") => NoRepeats(SentTo)
    /\ \A tx \in PendingTx : NoRepeats(tx.alreadySentTo)

\* the addresses of a member list, in order
AddressesOf(members) == [i \in 1..Len(members) |-> members[i].address]
\* the pointer to the group state of (nwid, mac)
PtrOf(nwid, mac) == _data[findGroup(ThisTable, heap, nwid, mac) + 1]

\* C13: no member list holds an address twice, and an add of an address that is a
\* member of its group changes nothing but the timestamp of that member, which
\* becomes the now of the call.
C13_AddRefreshesMember ==
    /\ [](\A p \in DOMAIN heap : NoRepeats(AddressesOf(heap[p].members)))
    /\ [][\A g \in RefreshGroups :
              (/\ halted' = "no" /\ op'.call = "add" /\ op'.nwid = g[1] /\ op'.mac = g[2]
               /\ InSeq(op'.member, AddressesOf(MembersOf(g[1], g[2])))) =>
                  LET gs == PtrOf(g[1], g[2])
                      m == CHOOSE i \in 1..Len(heap[gs].members) :
                               heap[gs].members[i].address = op'.member
                  IN /\ heap' = [heap EXCEPT ![gs].members[m].timestamp = op'.now]
                     /\ UNCHANGED <<_data, _size, _capacity>>
                     /\ op'.sent = <<>>]_vars

\* C14: gather never appends the address of the requesting peer, also when the
\* requester is a member of the group, and the total it writes counts every member,
\* the requester included (and the local node if it is subscribed).
C14_GatherSkipsRequester ==
    (halted = "no" /\ op.call = "gather") =>
        /\ ~InSeq(op.queryingPeer, op.out.addrs)
        /\ op.out.written =>
               op.out.totalKnown =
                   Cardinality(MemberAddresses(op.nwid, op.mac)
                               \cup (IF op.subscribed THEN {Self} ELSE {}))

\* C14 witness: peer 2, a member, asked for up to two members of a group of two: the
\* packet holds the other member only, and a total of two
C14_Witness ==
    /\ halted = "no" /\ op.call = "gather" /\ op.limit = 2 /\ ~op.subscribed
    /\ op.queryingPeer = 2
    /\ MemberAddresses(op.nwid, op.mac) = {2, 3}
    /\ op.out.addrs = <<3>> /\ op.out.totalKnown = 2 /\ op.out.ret = 1

\* a member is alive at now
Alive(m, now) == (now - m.timestamp) < ZT_MULTICAST_LIKE_EXPIRE
\* the positions of the members of a list that are alive at now
AliveAt(members, now) == {i \in 1..Len(members) : Alive(members[i], now)}
\* the k-th of a set of positions
Kth(S, k) == CHOOSE i \in S : Cardinality({j \in S : j <= i}) = k

Remaining(txQueue, now) == {i \in 1..Len(txQueue) : ~expired(txQueue[i], now) /\ ~atLimit(txQueue[i])}

\* what C16 says of the groups that clean(now) keeps and of the ones it erases
CleanKeepsIffInUse ==
    /\ \A p \in LivePtrs :
           p \in LivePtrs' <=> \/ AliveAt(heap[p].members, op'.now) # {}
                               \/ Remaining(heap[p].txQueue, op'.now) # {}
    /\ \A p \in LivePtrs' :
           /\ p \in LivePtrs
           /\ Len(heap'[p].members) > 0 \/ Len(heap'[p].txQueue) > 0
           /\ AliveAt(heap[p].members, op'.now) = {} => heap'[p].members = <<>>

\* C16: right after clean(now) a group is in the store if and only if it has a member
\* that is alive or a transmission that remains pending; one kept for its transmissions
\* only has an empty member list; and find for a group that was erased returns end().
C16_CleanErasesUnused ==
    [][(halted' = "no" /\ op'.call = "clean") =>
           /\ CleanKeepsIffInUse
           /\ \A p \in LivePtrs \ LivePtrs' :
                  find(_data', _capacity', heap', KeyOf(heap[p])) = _capacity']_vars

\* a group state with no member and no pending transmission
Unused(mgs) == Len(mgs.members) = 0 /\ Len(mgs.txQueue) = 0

DirectSend ==
    /\ halted = "no" /\ op.call = "send" /\ op.direct /\ op.limit >= 1
    /\ NoRepeats(op.alwaysSendTo)
\* of a direct send: limit frames, to different addresses, none to the local node, and
\* the ones to addresses of alwaysSendTo before the others
DirectFanOut ==
    /\ Len(SentTo) = op.limit
    /\ NoRepeats(SentTo)
    /\ ~InSeq(Self, SentTo)
    /\ \A i, j \in 1..Len(SentTo) :
           (InSeq(SentTo[j], op.alwaysSendTo) /\ ~InSeq(SentTo[i], op.alwaysSendTo)) => j < i
\* the positions of alwaysSendTo that hold a member of the group of the send
AlwaysMembers ==
    {i \in 1..Len(op.alwaysSendTo) : op.alwaysSendTo[i] \in MemberAddresses(op.nwid, op.mac)}
\* how often the frame went to an address
TimesSent(a) == Cardinality({i \in 1..Len(SentTo) : SentTo[i] = a})
\* the entries of alwaysSendTo before the i-th that are not the local address
NonSelfBefore(i) == Cardinality({j \in 1..(i - 1) : op.alwaysSendTo[j] # Self})

\* C18 as stated: a direct send with limit >= 1 and an alwaysSendTo list without
\* repeats notifies exactly limit different peers, none the local node, the alwaysSendTo
\* peers first, and every alwaysSendTo peer that is a member exactly once.
C18_DirectNotifiesAlwaysMembers ==
    DirectSend =>
        /\ DirectFanOut
        /\ \A i \in AlwaysMembers : TimesSent(op.alwaysSendTo[i]) = 1

\* C18 as amended: ... and an alwaysSendTo peer that is a member is notified once if
\* fewer than limit addresses other than the local one stand before it in alwaysSendTo,
\* and not at all otherwise.
C18_DirectNotifiesWithinLimit ==
    DirectSend =>
        /\ DirectFanOut
        /\ \A i \in AlwaysMembers :
               TimesSent(op.alwaysSendTo[i]) = IF NonSelfBefore(i) < op.limit THEN 1 ELSE 0

\* C18 witness: a direct send with limit 2 to the group of peers 2 and 3, with the local
\* node and peer 3 in alwaysSendTo, went to peer 3 first and to peer 2 then
C18_Witness ==
    /\ DirectSend /\ op.limit = 2 /\ op.alwaysSendTo = <<Self, 3>>
    /\ MemberAddresses(op.nwid, op.mac) = {2, 3}
    /\ SentTo = <<3, 2>>

\* the addresses of alwaysSendTo other than the local one
AlwaysPeers == Range(op.alwaysSendTo) \ {Self}
\* of a queued send to group g: the limit leaves room for every alwaysSendTo peer and
\* every member (op is the call, the members are the ones at the call)
RoomForAll(g) ==
    /\ halted' = "no" /\ op'.call = "send" /\ ~op'.direct
    /\ op'.nwid = g[1] /\ op'.mac = g[2]
    /\ Cardinality(AlwaysPeers') + Cardinality(MemberAddresses(g[1], g[2]) \ AlwaysPeers')
           <= op'.limit
\* the time of the last explicit gather for group g
LastGather(g) == IF Known(g[1], g[2]) THEN StatusOf(g[1], g[2]).lastExplicitGather ELSE 0

\* C19: a queued send whose limit leaves room for all of them notifies every member
\* and every alwaysSendTo peer other than the local node exactly once in the call, and
\* asks upstream for members at most once, and only if the last explicit gather for
\* the group is at least the explicit-gather delay ago.
C19_QueuedNotifiesAllOnce ==
    [][\A g \in FanGroups : RoomForAll(g) =>
           /\ \A a \in MemberAddresses(g[1], g[2]) \cup AlwaysPeers' : TimesSent(a)' = 1
           /\ op'.gather =>
                  (op'.now - LastGather(g)) >= ZT_MULTICAST_EXPLICIT_GATHER_DELAY]_vars

\* the queue of group g, empty if the store has no state for it
QueueOf(g) == IF Known(g[1], g[2]) THEN StatusOf(g[1], g[2]).txQueue ELSE <<>>
\* the pending transmissions of group g that an add of member has to notify
ToNotify(g, member) ==
    {i \in 1..Len(QueueOf(g)) : ~atLimit(QueueOf(g)[i]) /\ isNew(QueueOf(g)[i], member)}

\* C20: an add that makes an address a member of its group sends every pending
\* transmission of the group that is below its limit and has not notified the address
\* to it, within the call, and leaves no transmission in the queue that is at its limit.
C20_AddNotifiesPending ==
    [][\A g \in NotifyGroups :
           (/\ halted' = "no" /\ op'.call = "add" /\ op'.nwid = g[1] /\ op'.mac = g[2]
            /\ op'.member \notin MemberAddresses(g[1], g[2])
            /\ op'.member \in MemberAddresses(g[1], g[2])') =>
               /\ \A i \in ToNotify(g, op'.member) :
                      /\ InSeq(Frame(QueueOf(g)[i], op'.member), op'.sent)
                      /\ atLimit(sendAndLog(QueueOf(g)[i], op'.member))
                            \/ InSeq(sendAndLog(QueueOf(g)[i], op'.member), QueueOf(g)')
               /\ Len(op'.sent) = Cardinality(ToNotify(g, op'.member))
               /\ \A tx \in Range(QueueOf(g)') : ~atLimit(tx)]_vars

\* C20 witness: an add has sent two pending transmissions to the new member; one of
\* them reached its limit and is gone, the other is still pending
C20_Witness ==
    /\ halted = "no" /\ op.call = "add" /\ Len(op.sent) = 2
    /\ op.member \in MemberAddresses(op.nwid, op.mac)
    /\ Len(StatusOf(op.nwid, op.mac).txQueue) = 1

-----------------------------------------------------------------------------
(* Properties of the switch *)

\* the ids of a run of packets grow: the packets are in the order they were handed over
Ascending(packets) == \A i, j \in 1..Len(packets) : i < j => packets[i].id < packets[j].id

\* C21: the packets queued for an address are in the order of the send calls that
\* queued them (a send for an unknown address appends its packet to them), and
\* doAnythingWaitingForPeer (resolve) for the address sends all of them in that order,
\* leaves none of them in the queue and removes the WHOIS request of the address.
C21_ResolveDrainsFifo ==
    /\ [](\A addr \in WhoisTargets :
              /\ Ascending(PacketsOf(QueuedFor(addr)))
              /\ \A i \in 1..Len(QueuedFor(addr)) :
                     QueuedFor(addr)[i].second.packet.destination = addr)
    /\ [][\A addr \in WhoisTargets :
              /\ (op'.call = "send" /\ op'.packet.destination = addr /\ addr \notin topology) =>
                     /\ PacketsOf(QueuedFor(addr)') = Append(PacketsOf(QueuedFor(addr)), op'.packet)
                     /\ addr \in DOMAIN _outstandingWhoisRequests'
              /\ (op'.call = "doAnythingWaitingForPeer" /\ op'.peer = addr) =>
                     /\ op'.sent = PacketsOf(QueuedFor(addr))
                     /\ QueuedFor(addr)' = <<>>
                     /\ addr \notin DOMAIN _outstandingWhoisRequests'
                     /\ \A other \in WhoisTargets \ {addr} : QueuedFor(other)' = QueuedFor(other)]_vars

\* C21 witness: the identity of an address arrived while two packets were queued for
\* it, both were sent in the order they came, and the WHOIS request for the other
\* address is still out
C21_Witness ==
    /\ op.call = "doAnythingWaitingForPeer" /\ Len(op.sent) = 2
    /\ op.sent[1].id < op.sent[2].id
    /\ op.peer \notin DOMAIN _outstandingWhoisRequests
    /\ _outstandingWhoisRequests # <<>>

Attempts(p1, p2) ==
    {_lastUniteAttempt[k] : k \in {<<p1, p2>>, <<p2, p1>>} \cap DOMAIN _lastUniteAttempt}

\* C23: of a unite call for two peers whose best paths are known: with force = false
\* it sends the rendezvous if no attempt was made for the two peers (in either order)
\* less than ZT_MIN_UNITE_INTERVAL before, and sends nothing if one was, so the second
\* of two such calls made less than the interval apart sends nothing when the first
\* sent; with force = true it sends whenever the last attempt was.  A call that sends
\* is the last attempt from then on.
C23_UniteRateLimited ==
    [][\A p1, p2 \in UnitePeers :
           (op'.call = "unite" /\ op'.p1 = p1 /\ op'.p2 = p2 /\ op'.paths) =>
               LET recent == \E t \in Attempts(p1, p2) : (op'.now - t) < ZT_MIN_UNITE_INTERVAL
                   sent == op'.sent = <<[to |-> p1, with |-> p2], [to |-> p2, with |-> p1]>>
               IN /\ op'.force => sent
                  /\ (~op'.force /\ ~recent) => sent
                  /\ (~op'.force /\ recent) => op'.sent = <<>> /\ Attempts(p1, p2)' = Attempts(p1, p2)
                  /\ sent => Attempts(p1, p2)' = {op'.now}]_vars

\* C23 witness: a unite without force was refused because the two peers, given the
\* other way round, were united less than the interval before
C23_Witness ==
    /\ op.call = "unite" /\ ~op.force /\ op.paths /\ op.sent = <<>>
    /\ op.p1 > op.p2
    /\ \E t \in Attempts(op.p1, op.p2) : t < op.now /\ (op.now - t) < ZT_MIN_UNITE_INTERVAL

-----------------------------------------------------------------------------
(* Termination of the probe loops *)

\* C24: find(k) and erase(k) return for every key in every state of the table that
\* set, erase and compact lead to: no call is in a probe loop that never ends, and the
\* array always holds a free slot, where the probe for a key that is absent stops.
C24_ProbeTerminates ==
    /\ halted # "loop"
    /\ \E i \in 1.._capacity : _data[i] = free_ptr

-----------------------------------------------------------------------------
(* Further properties of the dispatcher *)

\* C25: no add, addMultiple or send dies on an assertion of getGroup: not when the
\* group it creates has the MAC of the group created last (the same address on another
\* network, or the same group again after clean erased it), and not on the assert that
\* the insert after a failed find succeeds.
C25_GetGroupAssertsHold ==
    ~(halted = "assert" /\ op.call \in {"add", "addMultiple", "send"})

\* the members findGroup(nwid, mg) leads to for the group g = (nwid, MAC, ADI)
GroupMembers(g) == AddressesOf(MembersOf(g[1], g[2]))

\* C26: groups of one network with the same MAC and different ADI are separate states:
\* an add to one of them leaves the members of the other as they were, and the frames
\* it sends to the new member are of transmissions queued for its own group.
C26_AdiSeparate ==
    [][\A g \in AdiGroups :
           (/\ halted' = "no" /\ op'.call = "add"
            /\ <<op'.nwid, op'.mac, op'.adi>> = g) =>
               /\ \A h \in AdiGroups \ {g} : GroupMembers(h)' = GroupMembers(h)
               /\ \A k \in 1..Len(op'.sent) : op'.sent[k].adi = g[3]]_vars

\* C27: a send that asks upstream for members of a group does so at least
\* ZT_MULTICAST_EXPLICIT_GATHER_DELAY after the last request for that group, whatever
\* add, remove and clean calls came in between.
C27_GathersApart ==
    [][\A g \in RateGroups :
           (/\ halted' = "no" /\ op'.call = "send" /\ op'.gather
            /\ <<op'.nwid, op'.mac, op'.adi>> = g /\ g \in DOMAIN gathers) =>
               (op'.now - gathers[g]) >= ZT_MULTICAST_EXPLICIT_GATHER_DELAY]_vars

\* C28: the frames an add or addMultiple at now sends to the member it learned are of
\* transmissions that are not expired at now.
C28_NoExpiredNotified ==
    (halted = "no" /\ op.call \in {"add", "addMultiple"}) =>
        \A k \in 1..Len(op.sent) :
            ~expired([timestamp |-> op.sent[k].timestamp], op.now)

\* the smaller of two numbers
Min(a, b) == IF a <= b THEN a ELSE b

\* C29: a gather with limit >= 1 that leaves room for one more address in the packet
\* returns, and writes as the count, min(limit, s + n - r), s = 1 if the node is
\* subscribed, n the number of members, r = 1 if the requester is a member; it has
\* appended that many addresses, all different, the local one first if s = 1, and the
\* total it writes is s + n.
C29_GatherCount ==
    (/\ halted = "no" /\ op.call = "gather" /\ op.limit >= 1
     /\ op.out.size + ZT_ADDRESS_LENGTH <= ZT_UDP_DEFAULT_PAYLOAD_MTU) =>
        LET s == IF op.subscribed THEN 1 ELSE 0
            n == Len(MembersOf(op.nwid, op.mac))
            r == IF InSeq(op.queryingPeer, GroupMembers(<<op.nwid, op.mac, op.adi>>)) THEN 1 ELSE 0
        IN /\ op.out.ret = Min(op.limit, s + n - r)
           /\ op.out.written /\ op.out.added = op.out.ret
           /\ Len(op.out.addrs) = op.out.ret
           /\ NoRepeats(op.out.addrs)
           /\ s = 1 => op.out.addrs[1] = Self
           /\ op.out.totalKnown = s + n

\* C29 witness: the node is subscribed, peer 2 asks for up to two members of the group
\* of peers 2 and 3: the packet holds the local address and peer 3, and a total of 3
C29_Witness ==
    /\ halted = "no" /\ op.call = "gather" /\ op.limit = 2 /\ op.subscribed
    /\ op.queryingPeer = 2
    /\ MemberAddresses(op.nwid, op.mac) = {2, 3}
    /\ op.out.addrs = <<Self, 3>> /\ op.out.ret = 2 /\ op.out.totalKnown = 3

\* C30: a thread that is in the group store holds _groups_m, and so no thread is in
\* the store while another one inserts into it, erases from it or resizes it.
C30_StoreUnderLock ==
    /\ \A t \in Threads : threads[t].at = "store" => _groups_m = t
    /\ \A t, u \in Threads :
           (t # u /\ threads[t].at = "store" /\ threads[u].at = "store") =>
               threads[u].call \notin Writers

====
